---- MODULE Spec2Model ----
(***************************************************************************)
(* A model of the MeshSDK wallet session of cardano-agent-kit              *)
(* (src/src/tools/meshsdk/index.ts): the constructor and its wallet        *)
(* initialisation, the accessors, getAddress, signAndSendTx, the five      *)
(* transaction intents, getBalance and getTransactionHistory, and of the   *)
(* tool adapter (src/src/integrations/vercel-ai/toolsFactory.ts).          *)
(* Every `await` of the source is one step of an                           *)
(* invocation; the ledger-client library (wallet, provider, transaction    *)
(* builder) is the environment, and each of its calls answers with a       *)
(* result or throws, chosen nondeterministically.                          *)
(*                                                                         *)
(* Strings that the code only stores and compares are TLA+ strings.  An    *)
(* error message is the sequence of the parts the code concatenates, and   *)
(* a reward address or an asset unit, which the code tests with startsWith *)
(* or cuts with slice, is the sequence of its characters.  `undefined` is  *)
(* a record with defined = FALSE.                                          *)
(***************************************************************************)
EXTENDS Integers, Sequences, FiniteSets, TLC

VARIABLES
    phase,          \* "Uninitialized", "Initialized", or "Failed" (the constructor threw)
    given,          \* the constructor's arguments (history, for the claims)
    ctorError,      \* the message the constructor threw, <<>> if none
    networkId,      \* this.networkId
    provider,       \* this.provider
    mnemonic,       \* this.mnemonic
    privateKey,     \* this.privateKey
    wallet,         \* this.wallet
    netCalled,      \* TRUE once any wallet / provider call was attempted
    stakeRegistered,\* the ledger: the reward address is registered
    inv,            \* inv[p]: the activation record of invocation slot p
    tools           \* the tools made by createVercelAITools and their execution

vars == <<phase, given, ctorError, networkId, provider, mnemonic, privateKey,
          wallet, netCalled, stakeRegistered, inv, tools>>

session == <<networkId, provider, mnemonic, privateKey, wallet>>

-----------------------------------------------------------------------------
(* Input sets *)

\* invocation slots: the activations that may be alive on the one session
Procs == {1, 2}

Word(i) == <<"w", i>>

\* a 12-word and a 24-word recovery phrase given by the caller
Mnemonic12 == [i \in 1..12 |-> Word(i)]
Mnemonic24 == [i \in 1..24 |-> Word(100 + i)]
\* what MeshWallet.brew() may hand out
BrewedMnemonics == {[i \in 1..24 |-> Word(200 + i)], [i \in 1..12 |-> Word(300 + i)]}

Undefined == [defined |-> FALSE, isArray |-> FALSE, words |-> <<>>, str |-> ""]
ArrayArg(ws) == [defined |-> TRUE, isArray |-> TRUE, words |-> ws, str |-> ""]
StringArg(s) == [defined |-> TRUE, isArray |-> FALSE, words |-> <<>>, str |-> s]

ProviderTypes == {"blockfrost", "maestro", "koios", "u5c", "infura"}
ApiKeys == {"", "testnet-key-123"}
Networks == {Undefined, StringArg("testnet"), StringArg("mainnet"), StringArg("preview")}
ImportMaterials == {Undefined, ArrayArg(<<>>), ArrayArg(Mnemonic12), ArrayArg(Mnemonic24),
                    StringArg("xprv1root"), StringArg("")}

-----------------------------------------------------------------------------
(* The constructor *)

NoNetworkId == -1
NoProvider == [kind |-> "none", apiKey |-> "", network |-> ""]
NoWallet == [exists |-> FALSE, networkId |-> NoNetworkId, fetcher |-> NoProvider,
             submitter |-> NoProvider,
             key |-> [type |-> "none", words |-> <<>>, bech32 |-> ""]]
NoWords == [defined |-> FALSE, words |-> <<>>]
NoKey == [defined |-> FALSE, str |-> ""]

\* the object before the constructor body runs
Blank == [error |-> <<>>, networkId |-> NoNetworkId, provider |-> NoProvider,
          mnemonic |-> NoWords, privateKey |-> NoKey, wallet |-> NoWallet]

\* a default of mainnet instead of testnet
NetworkTypeDefaultMainnet(network) == IF network.defined THEN network.str ELSE "mainnet"

\* let networkType = network ?? "testnet"
NetworkType(network) == IF network.defined THEN network.str ELSE "testnet"

\* this.networkId = networkType === "mainnet" ? 1 : 0
NetworkIdOf(networkType) == IF networkType = "mainnet" THEN 1 ELSE 0

KnownProvider(providerType) == providerType \in {"blockfrost", "maestro", "koios", "u5c"}

\* the switch on providerType
SelectProvider(providerType, apiKey, networkType) ==
    CASE providerType = "blockfrost" ->
            [kind |-> "BlockfrostProvider", apiKey |-> apiKey, network |-> ""]
      [] providerType = "maestro" ->
            [kind |-> "MaestroProvider", apiKey |-> apiKey,
             network |-> IF networkType = "mainnet" THEN "Mainnet" ELSE "Preprod"]
      [] providerType = "koios" ->
            [kind |-> "KoiosProvider", apiKey |-> apiKey, network |-> ""]
      [] providerType = "u5c" ->
            [kind |-> "U5CProvider", apiKey |-> apiKey, network |-> ""]
      [] OTHER -> NoProvider

\* initializeWallet keeping only the first twelve words of an imported phrase
WalletKeyTruncating(imp, brewed) ==
    IF imp.defined /\ imp.isArray /\ Len(imp.words) > 0
    THEN LET ws == SubSeq(imp.words, 1, 12)
         IN  [mnemonic |-> [defined |-> TRUE, words |-> ws], privateKey |-> NoKey,
              key |-> [type |-> "mnemonic", words |-> ws, bech32 |-> ""]]
    ELSE IF imp.defined /\ ~imp.isArray
    THEN [mnemonic |-> NoWords, privateKey |-> [defined |-> TRUE, str |-> imp.str],
          key |-> [type |-> "root", words |-> <<>>, bech32 |-> imp.str]]
    ELSE [mnemonic |-> [defined |-> TRUE, words |-> brewed], privateKey |-> NoKey,
          key |-> [type |-> "mnemonic", words |-> brewed, bech32 |-> ""]]

\* initializeWallet brewing a mnemonic in the root-key branch as well
WalletKeyAlwaysBrewing(imp, brewed) ==
    IF imp.defined /\ imp.isArray /\ Len(imp.words) > 0
    THEN [mnemonic |-> [defined |-> TRUE, words |-> imp.words], privateKey |-> NoKey,
          key |-> [type |-> "mnemonic", words |-> imp.words, bech32 |-> ""]]
    ELSE IF imp.defined /\ ~imp.isArray
    THEN [mnemonic |-> [defined |-> TRUE, words |-> brewed],
          privateKey |-> [defined |-> TRUE, str |-> imp.str],
          key |-> [type |-> "root", words |-> <<>>, bech32 |-> imp.str]]
    ELSE [mnemonic |-> [defined |-> TRUE, words |-> brewed], privateKey |-> NoKey,
          key |-> [type |-> "mnemonic", words |-> brewed, bech32 |-> ""]]

\* initializeWallet taking any array, an empty one too, as the mnemonic
WalletKeyKeepingEmpty(imp, brewed) ==
    IF imp.defined /\ imp.isArray
    THEN [mnemonic |-> [defined |-> TRUE, words |-> imp.words], privateKey |-> NoKey,
          key |-> [type |-> "mnemonic", words |-> imp.words, bech32 |-> ""]]
    ELSE IF imp.defined /\ ~imp.isArray
    THEN [mnemonic |-> NoWords, privateKey |-> [defined |-> TRUE, str |-> imp.str],
          key |-> [type |-> "root", words |-> <<>>, bech32 |-> imp.str]]
    ELSE [mnemonic |-> [defined |-> TRUE, words |-> brewed], privateKey |-> NoKey,
          key |-> [type |-> "mnemonic", words |-> brewed, bech32 |-> ""]]

\* the three branches of initializeWallet: the fields it sets and the key
\* the wallet is made from
WalletKey(imp, brewed) ==
    IF imp.defined /\ imp.isArray /\ Len(imp.words) > 0
    THEN [mnemonic |-> [defined |-> TRUE, words |-> imp.words], privateKey |-> NoKey,
          key |-> [type |-> "mnemonic", words |-> imp.words, bech32 |-> ""]]
    ELSE IF imp.defined /\ ~imp.isArray
    THEN [mnemonic |-> NoWords, privateKey |-> [defined |-> TRUE, str |-> imp.str],
          key |-> [type |-> "root", words |-> <<>>, bech32 |-> imp.str]]
    ELSE [mnemonic |-> [defined |-> TRUE, words |-> brewed], privateKey |-> NoKey,
          key |-> [type |-> "mnemonic", words |-> brewed, bech32 |-> ""]]

\* initializeWallet on the object o; walletOk: new MeshWallet(...) did not throw
InitializeWallet(o, imp, brewed, walletOk) ==
    LET k == WalletKey(imp, brewed)
        o1 == [o EXCEPT !.mnemonic = k.mnemonic, !.privateKey = k.privateKey]
    IN  IF walletOk
        THEN [o1 EXCEPT !.wallet = [exists |-> TRUE, networkId |-> o.networkId,
                                     fetcher |-> o.provider, submitter |-> o.provider,
                                     key |-> k.key]]
        ELSE [o1 EXCEPT !.error = <<"MeshWallet: invalid key">>]

\* a constructor that builds the wallet first and validates afterwards
ConstructorValidatingLast(providerType, apiKey, network, imp, brewed, walletOk) ==
    LET networkType == NetworkType(network)
        o1 == [Blank EXCEPT !.networkId = NetworkIdOf(networkType)]
        o2 == [o1 EXCEPT !.provider = SelectProvider(providerType, apiKey, networkType)]
        o3 == InitializeWallet(o2, imp, brewed, walletOk)
    IN  IF apiKey = "" THEN [o3 EXCEPT !.error = <<"API key is required">>]
        ELSE IF ~KnownProvider(providerType)
        THEN [o3 EXCEPT !.error = <<"Invalid provider type">>]
        ELSE o3

\* the constructor body, statement by statement; .error # <<>> when it throws
Constructor(providerType, apiKey, network, imp, brewed, walletOk) ==
    LET networkType == NetworkType(network)
    IN  IF apiKey = "" THEN [Blank EXCEPT !.error = <<"API key is required">>]
        ELSE LET o1 == [Blank EXCEPT !.networkId = NetworkIdOf(networkType)]
             IN  IF ~KnownProvider(providerType)
                 THEN [o1 EXCEPT !.error = <<"Invalid provider type">>]
                 ELSE InitializeWallet(
                        [o1 EXCEPT !.provider =
                             SelectProvider(providerType, apiKey, networkType)],
                        imp, brewed, walletOk)

\* getMnemonic() / getPrivateKey()
getMnemonic == mnemonic
getPrivateKey == privateKey

-----------------------------------------------------------------------------
(* Values thrown and returned *)

\* a thrown value: an Error instance with a message, or any other value
NewError(parts) == [isError |-> TRUE, msg |-> parts]
NoThrown == [isError |-> FALSE, msg |-> <<>>]

\* what the ledger-client library may throw: an Error, or a bare value
\* (its providers throw the parsed HTTP response)
LibErrors == {NewError(<<"timeout">>), [isError |-> FALSE, msg |-> <<"http 500">>]}

\* "..." + error
ToStringParts(e) == IF e.isError THEN <<"Error: ">> \o e.msg ELSE e.msg

\* (error as Error).message
MessageOf(e) == IF e.isError THEN e.msg ELSE <<"undefined">>

\* error instanceof Error ? error.message : JSON.stringify(error)
MessageOrJson(e) == IF e.isError THEN e.msg ELSE <<"JSON ">> \o e.msg

\* the transaction builder object: new Transaction({ initiator: this.wallet })
NoTx == [initiator |-> FALSE, outputs |-> <<>>, changeAddress |-> "",
         certs |-> <<>>, forge |-> <<>>]
NewTransaction(w) == [NoTx EXCEPT !.initiator = w.exists]

\* a signed transaction: the body with the wallet's witness
NoSigned == [body |-> NoTx, witness |-> FALSE]
Signed(utx) == [body |-> utx, witness |-> TRUE]

NoValue == [tag |-> "none", address |-> "", stx |-> NoSigned, list |-> <<>>]
AddressValue(a) == [tag |-> "address", address |-> a, stx |-> NoSigned, list |-> <<>>]
SignedTxValue(stx) == [tag |-> "signedTx", address |-> "", stx |-> stx, list |-> <<>>]
\* the hash the submitter answers with: a function of the submitted bytes
TxHashValue(stx) == [tag |-> "txHash", address |-> "", stx |-> stx, list |-> <<>>]
\* an array: the records of getBalance or of getTransactionHistory
ListValue(l) == [tag |-> "array", address |-> "", stx |-> NoSigned, list |-> l]

NoResult == [status |-> "none", value |-> NoValue, error |-> NoThrown]
Ok(v) == [status |-> "ok", value |-> v, error |-> NoThrown]
Err(e) == [status |-> "error", value |-> NoValue, error |-> e]

-----------------------------------------------------------------------------
(* Invocations *)

Intents == {"sendLovelace", "sendAsset", "mintAsset", "burnAsset", "registerAndStakeADA"}
Ops == Intents \cup {"getAddress", "signAndSendTx", "getBalance", "getTransactionHistory"}

NoArg == [recipient |-> "", unit |-> "", quantity |-> "", poolId |-> "",
          label |-> "", txHex |-> NoTx]

\* a transaction built elsewhere, handed to signAndSendTx
ExternalTx == [NoTx EXCEPT !.initiator = TRUE,
                 !.outputs = <<[address |-> "addr_x", unit |-> "lovelace", quantity |-> "5"]>>]

ArgsOf(o) ==
    CASE o \in {"getAddress", "getBalance", "getTransactionHistory"} -> {NoArg}
      [] o = "signAndSendTx" -> {[NoArg EXCEPT !.txHex = ExternalTx]}
      [] o = "sendLovelace" -> {[NoArg EXCEPT !.recipient = "addr_r", !.quantity = "1000000"]}
      [] o = "sendAsset" ->
            {[NoArg EXCEPT !.recipient = "addr_r", !.unit = "policy.token", !.quantity = "2"]}
      [] o = "mintAsset" ->
            {[NoArg EXCEPT !.recipient = "addr_r", !.unit = "token", !.quantity = "1",
                           !.label = l] : l \in {"721", "20"}}
      [] o = "burnAsset" -> {[NoArg EXCEPT !.unit = "policy.token", !.quantity = "1"]}
      [] o = "registerAndStakeADA" -> {[NoArg EXCEPT !.poolId = q] : q \in {"pool1", "pool2"}}

\* what the wallet may answer to getUsedAddresses / getUnusedAddresses
UsedLists == {<<>>, <<"addr_used1">>, <<"addr_used1", "addr_used2">>}
UnusedLists == {<<>>, <<"addr_new1">>, <<"addr_new1", "addr_new2">>}

\* what the wallet may answer to getRewardAddresses
StakeTestAddr == <<"s", "t", "a", "k", "e", "_", "t", "e", "s", "t", "1", "u">>
StakeMainAddr == <<"s", "t", "a", "k", "e", "1", "u">>
PaymentAddr == <<"a", "d", "d", "r", "1", "q">>
RewardLists == {<<>>, <<StakeTestAddr>>, <<StakeMainAddr>>, <<PaymentAddr, StakeTestAddr>>}

\* what the provider may answer to fetchAccountInfo: null, or an account
NullInfo == [present |-> FALSE, active |-> FALSE]
AccountInfos(registered) ==
    IF registered THEN {[present |-> TRUE, active |-> TRUE]}
    ELSE {NullInfo, [present |-> TRUE, active |-> FALSE]}

NotSeen == [seen |-> FALSE, list |-> <<>>]
Seen(l) == [seen |-> TRUE, list |-> l]

IdleInv == [pc |-> "idle", op |-> "none", arg |-> NoArg,
            usedSeen |-> NotSeen, unusedSeen |-> NotSeen,
            address |-> "", rewardSeen |-> NotSeen, rewardAddress |-> <<>>,
            infoSeen |-> [seen |-> FALSE, info |-> NullInfo, registered |-> FALSE],
            tx |-> NoTx, unsignedTx |-> NoTx, signedTx |-> NoSigned,
            nBuild |-> 0, nSign |-> 0, nSubmit |-> 0,
            rawSeen |-> [seen |-> FALSE, isArray |-> FALSE, list |-> <<>>],
            nList |-> 0, fan |-> <<>>,
            failedAt |-> "none", cause |-> NoThrown, result |-> NoResult]

\* str.startsWith(prefix)
StartsWith(s, prefix) ==
    Len(s) >= Len(prefix) /\ SubSeq(s, 1, Len(prefix)) = prefix

Stake == <<"s", "t", "a", "k", "e">>

-----------------------------------------------------------------------------
(* The code of the operations, one operator per continuation of an await *)

\* catch of getAddress
GetAddressCatch(e) == NewError(<<"Error fetching wallet address: ">> \o ToStringParts(e))

\* catch clauses that tell the caller nothing about the value thrown
IntentCatchDroppingCause(o, e) ==
    CASE o = "sendLovelace" -> NewError(<<"Error sending ADA: ">>)
      [] o = "sendAsset" -> NewError(<<"Error sending asset: ">>)
      [] o = "registerAndStakeADA" -> NewError(<<"Error staking ADA: ">>)
      [] o = "signAndSendTx" -> NewError(<<"Error signing transaction: ">>)
      [] o = "getBalance" -> NewError(<<"Error fetching balance: ">>)
      [] o = "getTransactionHistory" ->
            NewError(<<"Error fetching transaction history: ">>)
      [] OTHER -> e

\* the catch clause of each operation: what the caller gets for a value e
\* thrown inside its body (mintAsset and burnAsset have no try / catch;
\* getAddress's own catch is GetAddressCatch)
IntentCatch(o, e) ==
    CASE o = "sendLovelace" -> NewError(<<"Error sending ADA: ">> \o MessageOrJson(e))
      [] o = "sendAsset" -> NewError(<<"Error sending asset: ">> \o MessageOrJson(e))
      [] o = "registerAndStakeADA" -> NewError(<<"Error staking ADA: ">> \o MessageOf(e))
      [] o = "signAndSendTx" -> NewError(<<"Error signing transaction: ">> \o MessageOf(e))
      [] o = "getBalance" -> NewError(<<"Error fetching balance: ">> \o MessageOf(e))
      [] o = "getTransactionHistory" ->
            NewError(<<"Error fetching transaction history: ">> \o MessageOf(e))
      [] OTHER -> e

\* the invocation ends by throwing: e was thrown at step `at`
Throw(r, at, e) ==
    [r EXCEPT !.pc = "done", !.failedAt = at, !.cause = e,
              !.result = Err(IntentCatch(r.op, e))]

\* the invocation ends by returning v
Return(r, v) == [r EXCEPT !.pc = "done", !.result = Ok(v)]

\* the last address of the list instead of the first
PickLastAddress(list) == list[Len(list)]

\* usedAddresses[0] / unusedAddresses[0]
PickAddress(list) == list[1]

\* Transaction(...).sendLovelace(recipient, amount).setChangeAddress(sender)
SendLovelaceTx(w, a, sender) ==
    [NewTransaction(w) EXCEPT
        !.outputs = <<[address |-> a.recipient, unit |-> "lovelace", quantity |-> a.quantity]>>,
        !.changeAddress = sender]

\* the change sent on to the recipient
SendAssetTxChangeToRecipient(w, a, sender) ==
    [NewTransaction(w) EXCEPT
        !.outputs = <<[address |-> a.recipient, unit |-> a.unit, quantity |-> a.quantity]>>,
        !.changeAddress = a.recipient]

\* Transaction(...).sendAssets(recipient, [{unit, quantity}]).setChangeAddress(sender)
SendAssetTx(w, a, sender) ==
    [NewTransaction(w) EXCEPT
        !.outputs = <<[address |-> a.recipient, unit |-> a.unit, quantity |-> a.quantity]>>,
        !.changeAddress = sender]

\* Transaction(...).mintAsset(ForgeScript.withOneSignature(address), asset)
MintTx(w, a, address) ==
    [NewTransaction(w) EXCEPT
        !.forge = <<[action |-> "mint", script |-> address, unit |-> a.unit,
                     quantity |-> a.quantity, label |-> a.label,
                     recipient |-> a.recipient]>>]

\* Transaction(...).burnAsset(ForgeScript.withOneSignature(address), asset)
BurnTx(w, a, address) ==
    [NewTransaction(w) EXCEPT
        !.forge = <<[action |-> "burn", script |-> address, unit |-> a.unit,
                     quantity |-> a.quantity, label |-> "", recipient |-> ""]>>]

\* getTransactionHistory after `await this.getAddress()`:
\* if (!(this.provider instanceof BlockfrostProvider)) throw
HistoryAfterAddress(r, prov) ==
    IF prov.kind # "BlockfrostProvider"
    THEN Throw(r, "capability",
               NewError(<<"Transaction history is only supported with Blockfrost.">>))
    ELSE [r EXCEPT !.pc = "fetchAddressTransactions"]

\* what each operation does with the address getAddress returned
AfterGetAddress(r, w, prov, address) ==
    LET r1 == [r EXCEPT !.address = address]
    IN  CASE r.op = "getAddress" -> Return(r1, AddressValue(address))
          [] r.op = "getTransactionHistory" -> HistoryAfterAddress(r1, prov)
          [] r.op = "sendLovelace" ->
                [r1 EXCEPT !.tx = SendLovelaceTx(w, r.arg, address), !.pc = "build"]
          [] r.op = "sendAsset" ->
                [r1 EXCEPT !.tx = SendAssetTx(w, r.arg, address), !.pc = "build"]
          [] r.op = "mintAsset" ->
                [r1 EXCEPT !.tx = MintTx(w, r.arg, address), !.pc = "build"]
          [] r.op = "burnAsset" ->
                [r1 EXCEPT !.tx = BurnTx(w, r.arg, address), !.pc = "build"]

\* getAddress after `await this.wallet.getUsedAddresses()`
OnUsedAddresses(r, w, prov, used) ==
    LET r1 == [r EXCEPT !.usedSeen = Seen(used)]
    IN  IF Len(used) > 0 THEN AfterGetAddress(r1, w, prov, PickAddress(used))
        ELSE [r1 EXCEPT !.pc = "getUnusedAddresses"]

\* getAddress after `await this.wallet.getUnusedAddresses()`
OnUnusedAddresses(r, w, prov, unused) ==
    LET r1 == [r EXCEPT !.unusedSeen = Seen(unused)]
    IN  IF Len(unused) > 0 THEN AfterGetAddress(r1, w, prov, PickAddress(unused))
        ELSE Throw(r1, "address", GetAddressCatch(
                 NewError(<<"No addresses found. Try receiving funds first.">>)))

\* registerAndStakeADA after `await this.wallet.getRewardAddresses()`
OnRewardAddresses(r, list) ==
    LET r1 == [r EXCEPT !.rewardSeen = Seen(list)]
    IN  IF Len(list) = 0
        THEN Throw(r1, "address",
                   NewError(<<"No reward address found. Ensure this wallet supports staking.">>))
        ELSE IF ~StartsWith(list[1], Stake)
        THEN Throw(r1, "address",
                   NewError(<<"Invalid stake address! Expected 'stake_test1...', got: ">>
                            \o list[1]))
        ELSE [r1 EXCEPT !.rewardAddress = list[1], !.pc = "fetchAccountInfo"]

\* registering whatever the account query answered
NeedsRegistrationAlways(info) == TRUE

\* if (!accountInfo || !accountInfo.active)
NeedsRegistration(info) == ~info.present \/ ~info.active

\* the certificates registerAndStakeADA puts into the transaction
StakeTx(w, rewardAddress, info, poolId) ==
    [NewTransaction(w) EXCEPT
        !.certs = (IF NeedsRegistration(info)
                   THEN <<[type |-> "registerStake", rewardAddress |-> rewardAddress,
                           poolId |-> ""]>>
                   ELSE <<>>)
                  \o <<[type |-> "delegateStake", rewardAddress |-> rewardAddress,
                        poolId |-> poolId]>>]

\* registerAndStakeADA after `await this.provider.fetchAccountInfo(rewardAddress)`
OnAccountInfo(r, w, info, registered) ==
    [r EXCEPT !.infoSeen = [seen |-> TRUE, info |-> info, registered |-> registered],
              !.tx = StakeTx(w, r.rewardAddress, info, r.arg.poolId),
              !.pc = "build"]

\* a failed build that is swallowed: the intent goes on to sign
OnBuildSwallowing(r, ok, e) ==
    LET r1 == [r EXCEPT !.nBuild = @ + 1]
    IN  IF ok THEN [r1 EXCEPT !.unsignedTx = r.tx, !.pc = "signTx"]
        ELSE [r1 EXCEPT !.failedAt = "build", !.cause = e, !.pc = "signTx"]

\* an intent after `await tx.build()`
OnBuild(r, ok, e) ==
    LET r1 == [r EXCEPT !.nBuild = @ + 1]
    IN  IF ok THEN [r1 EXCEPT !.unsignedTx = r.tx, !.pc = "signTx"]
        ELSE Throw(r1, "build", e)

\* after `await this.wallet.signTx(...)`: signAndSendTx returns what signTx
\* answered; an intent goes on to submit it
OnSign(r, ok, e) ==
    LET r1 == [r EXCEPT !.nSign = @ + 1]
    IN  IF ~ok THEN Throw(r1, "sign", e)
        ELSE IF r.op = "signAndSendTx"
        THEN Return([r1 EXCEPT !.signedTx = Signed(r.arg.txHex)],
                    SignedTxValue(Signed(r.arg.txHex)))
        ELSE [r1 EXCEPT !.signedTx = Signed(r.unsignedTx), !.pc = "submitTx"]

\* an intent after `await this.wallet.submitTx(signedTx)`
OnSubmit(r, ok, e) ==
    LET r1 == [r EXCEPT !.nSubmit = @ + 1]
    IN  IF ok THEN Return(r1, TxHashValue(r.signedTx))
        ELSE Throw(r1, "submit", e)

-----------------------------------------------------------------------------
(* getBalance and getTransactionHistory.  A unit is the sequence of its      *)
(* characters, a decoded asset name the sequence of its code points.         *)

\* entries of one balance, transactions of one history
MaxAssets == 2
MaxTxs == 2

\* the sequences of at most n distinct elements of S
DistinctSeqs(S, n) ==
    {l \in UNION {[1..k -> S] : k \in 0..n} :
        \A i, j \in DOMAIN l : i # j => l[i] # l[j]}

Lovelace == <<"l", "o", "v", "e", "l", "a", "c", "e">>
PolicyIdLength == 56
PolicyA == [i \in 1..PolicyIdLength |-> "a"]
PolicyB == [i \in 1..PolicyIdLength |-> IF i % 2 = 1 THEN "0" ELSE "f"]
\* policy A with the names "AB" (4142) and "e-acute" (c3a9) and a stray digit
TokenAB == PolicyA \o <<"4", "1", "4", "2">>
TokenOdd == PolicyA \o <<"c", "3", "a", "9", "7">>
\* a unit that is a policy id only, as in the test's balance
TokenBare == PolicyB

RawAssets == {[unit |-> Lovelace, quantity |-> "1000000000"],
              [unit |-> TokenAB, quantity |-> "5"],
              [unit |-> TokenOdd, quantity |-> "1"],
              [unit |-> TokenBare, quantity |-> "5"]}

\* what the wallet may answer to getBalance: an array, or something else
BalanceAnswers ==
    {[isArray |-> TRUE, list |-> l] : l \in DistinctSeqs(RawAssets, MaxAssets)}
    \cup {[isArray |-> FALSE, list |-> <<>>]}

\* the remainder taken one character early
SliceFromInclusive(str, from) == SubSeq(str, from, Len(str))

\* str.slice(from) and str.slice(0, to), 0-based as in the source
SliceFrom(str, from) == SubSeq(str, from + 1, Len(str))
SliceTo(str, to) == SubSeq(str, 1, IF to < Len(str) THEN to ELSE Len(str))

HexDigits == <<"0", "1", "2", "3", "4", "5", "6", "7", "8", "9",
               "a", "b", "c", "d", "e", "f">>
UpperHexDigits == <<"0", "1", "2", "3", "4", "5", "6", "7", "8", "9",
                    "A", "B", "C", "D", "E", "F">>
\* the value of a hex digit, -1 for any other character
HexVal(c) ==
    IF \E i \in 1..16 : HexDigits[i] = c
    THEN (CHOOSE i \in 1..16 : HexDigits[i] = c) - 1
    ELSE IF \E i \in 1..16 : UpperHexDigits[i] = c
    THEN (CHOOSE i \in 1..16 : UpperHexDigits[i] = c) - 1
    ELSE -1

\* Buffer.from(hex, "hex"): pairs of hex digits up to the first pair that is
\* not one; a trailing single digit is dropped
RECURSIVE HexBytes(_)
HexBytes(hex) ==
    IF Len(hex) < 2 \/ HexVal(hex[1]) < 0 \/ HexVal(hex[2]) < 0 THEN <<>>
    ELSE <<16 * HexVal(hex[1]) + HexVal(hex[2])>> \o HexBytes(SubSeq(hex, 3, Len(hex)))

\* U+FFFD, what toString("utf-8") puts for a byte that starts no character
ReplacementChar == 65533

\* buffer.toString("utf-8"), for one- and two-byte characters; every other
\* byte decodes to U+FFFD
RECURSIVE Utf8Text(_)
Utf8Text(bytes) ==
    IF Len(bytes) = 0 THEN <<>>
    ELSE IF bytes[1] < 128 THEN <<bytes[1]>> \o Utf8Text(Tail(bytes))
    ELSE IF /\ bytes[1] >= 194 /\ bytes[1] <= 223 /\ Len(bytes) >= 2
            /\ bytes[2] >= 128 /\ bytes[2] <= 191
    THEN <<(bytes[1] - 192) * 64 + (bytes[2] - 128)>> \o Utf8Text(Tail(Tail(bytes)))
    ELSE <<ReplacementChar>> \o Utf8Text(Tail(bytes))

\* "ADA"
AdaName == <<65, 68, 65>>

Null == [isNull |-> TRUE, of |-> <<>>]
NotNull(x) == [isNull |-> FALSE, of |-> x]

\* what the provider answers to fetchAssetMetadata(unit) when it answers
MetadataOf(unit) == NotNull(unit)

\* the map callback of getBalance up to its await: the native unit is
\* finished at once, any other unit is split and waits for its metadata
NormalizeAssetNoNative(asset) ==
    [state |-> "pending", fetch |-> "pending",
     rec |-> [unit |-> asset.unit, quantity |-> asset.quantity,
              policyId |-> NotNull(SliceTo(asset.unit, PolicyIdLength)),
              assetName |-> Utf8Text(HexBytes(SliceFrom(asset.unit, PolicyIdLength))),
              metadata |-> Null]]

NormalizeAsset(asset) ==
    IF asset.unit = Lovelace
    THEN [state |-> "done", fetch |-> "none",
          rec |-> [unit |-> asset.unit, quantity |-> asset.quantity,
                   policyId |-> Null, assetName |-> AdaName, metadata |-> Null]]
    ELSE [state |-> "pending", fetch |-> "pending",
          rec |-> [unit |-> asset.unit, quantity |-> asset.quantity,
                   policyId |-> NotNull(SliceTo(asset.unit, PolicyIdLength)),
                   assetName |-> Utf8Text(HexBytes(SliceFrom(asset.unit, PolicyIdLength))),
                   metadata |-> Null]]

AllDone(fan) == \A i \in 1..Len(fan) : fan[i].state = "done"
Records(fan) == [i \in 1..Len(fan) |-> fan[i].rec]

\* a join that is never told of a callback whose fetch failed
JoinBalanceLosingFailed(r) ==
    IF AllDone(r.fan) /\ \A i \in 1..Len(r.fan) : r.fan[i].fetch # "failed"
    THEN Return(r, ListValue(Records(r.fan)))
    ELSE [r EXCEPT !.pc = "fetchAssetMetadata"]

\* await Promise.all(...) of getBalance: returns once every callback is done
JoinBalance(r) ==
    IF AllDone(r.fan) THEN Return(r, ListValue(Records(r.fan)))
    ELSE [r EXCEPT !.pc = "fetchAssetMetadata"]

\* getBalance after `await this.wallet.getBalance()`
OnBalance(r, ans) ==
    LET r1 == [r EXCEPT !.rawSeen = [seen |-> TRUE, isArray |-> ans.isArray,
                                     list |-> ans.list]]
    IN  IF ~ans.isArray THEN Return(r1, ListValue(<<>>))
        ELSE JoinBalance([r1 EXCEPT !.fan = [i \in 1..Len(ans.list) |->
                                                NormalizeAsset(ans.list[i])]])

\* a failed metadata fetch of one asset that rejects the whole Promise.all
OnAssetMetadataAborting(r, i, ok, meta) ==
    IF ok
    THEN JoinBalance([r EXCEPT !.fan[i].state = "done", !.fan[i].fetch = "ok",
                               !.fan[i].rec.metadata = meta])
    ELSE Throw([r EXCEPT !.fan[i].state = "done", !.fan[i].fetch = "failed"],
               "fetchAssetMetadata", NewError(<<"metadata">>))

\* callback i of getBalance after `await this.provider.fetchAssetMetadata(unit)`:
\* try { metadata = ... } catch { console.warn }, then the record
OnAssetMetadata(r, i, ok, meta) ==
    JoinBalance([r EXCEPT !.fan[i].state = "done",
                          !.fan[i].fetch = IF ok THEN "ok" ELSE "failed",
                          !.fan[i].rec.metadata = IF ok THEN meta ELSE Null])

\* the transactions of the address on the ledger, in the order the provider
\* lists them
TxChain == <<"tx1", "tx2", "tx3">>

\* the lists of at most n transactions the provider may answer with: some of
\* the chain, in its order
TxLists(n) ==
    {[i \in 1..Len(f) |-> [hash |-> TxChain[f[i]]]] :
        f \in {g \in UNION {[1..k -> 1..Len(TxChain)] : k \in 0..n} :
                  \A i, j \in DOMAIN g : i < j => g[i] < g[j]}}

\* what the provider may answer to fetchAddressTransactions: a list, or nothing
HistoryAnswers ==
    {[present |-> TRUE, list |-> l] : l \in TxLists(MaxTxs)}
    \cup {[present |-> FALSE, list |-> <<>>]}

\* what the provider answers to fetchTxInfo(hash) and fetchUTxOs(hash)
NoTxInfo == [hash |-> "", fees |-> ""]
TxInfoOf(hash) == [hash |-> hash, fees |-> "170000"]
NoUTxOs == [of |-> "", outputs |-> 0]
UTxOsOf(hash) == [of |-> hash, outputs |-> 2]

\* { ...info, utxos }
MergeTx(info, utxos) == [hash |-> info.hash, fees |-> info.fees, utxos |-> utxos]

TxRecords(fan) == [i \in 1..Len(fan) |-> MergeTx(fan[i].info, fan[i].utxos)]

\* the list used without the test for an absent one
OnAddressTransactionsUnguarded(r, ans) ==
    LET r1 == [r EXCEPT !.nList = @ + 1,
                        !.rawSeen = [seen |-> TRUE, isArray |-> ans.present,
                                     list |-> ans.list]]
    IN  IF ~ans.present
        THEN Throw(r1, "fetchAddressTransactions",
                   NewError(<<"Cannot read properties of null">>))
        ELSE IF Len(ans.list) = 0 THEN Return(r1, ListValue(<<>>))
        ELSE [r1 EXCEPT !.pc = "fetchTxDetails",
                        !.fan = [i \in 1..Len(ans.list) |->
                                    [state |-> "info", hash |-> ans.list[i].hash,
                                     info |-> NoTxInfo, utxos |-> NoUTxOs]]]

\* getTransactionHistory after `await this.provider.fetchAddressTransactions(address)`
OnAddressTransactions(r, ans) ==
    LET r1 == [r EXCEPT !.nList = @ + 1,
                        !.rawSeen = [seen |-> TRUE, isArray |-> ans.present,
                                     list |-> ans.list]]
    IN  IF ~ans.present \/ Len(ans.list) = 0 THEN Return(r1, ListValue(<<>>))
        ELSE [r1 EXCEPT !.pc = "fetchTxDetails",
                        !.fan = [i \in 1..Len(ans.list) |->
                                    [state |-> "info", hash |-> ans.list[i].hash,
                                     info |-> NoTxInfo, utxos |-> NoUTxOs]]]

\* a callback that threw leaves its transaction out and the call returns
RejectTxLeavingOut(r, i, at, e) ==
    Return([r EXCEPT !.fan[i].state = "failed"], ListValue(<<>>))

\* a callback of getTransactionHistory threw: Promise.all rejects at the first
\* rejection; a later one finds the promise settled
RejectTx(r, i, at, e) ==
    LET r1 == [r EXCEPT !.fan[i].state = "failed"]
    IN  IF r.pc = "fetchTxDetails" THEN Throw(r1, at, e) ELSE r1

\* the callbacks keeping their info in one place they share
OnTxInfoShared(r, i, ok, info, e) ==
    IF ok THEN [r EXCEPT !.fan[1].info = info, !.fan[i].state = "utxos"]
    ELSE RejectTx(r, i, "fetchTxInfo", e)

\* callback i after `await this.provider.fetchTxInfo(tx.hash)`
OnTxInfo(r, i, ok, info, e) ==
    IF ok THEN [r EXCEPT !.fan[i].info = info, !.fan[i].state = "utxos"]
    ELSE RejectTx(r, i, "fetchTxInfo", e)

\* callback i after `await this.provider.fetchUTxOs(tx.hash)`, and the
\* return once every callback is done
OnUTxOs(r, i, ok, utxos, e) ==
    IF ~ok THEN RejectTx(r, i, "fetchUTxOs", e)
    ELSE LET r1 == [r EXCEPT !.fan[i].utxos = utxos, !.fan[i].state = "done"]
         IN  IF r.pc = "fetchTxDetails" /\ AllDone(r1.fan)
             THEN Return(r1, ListValue(TxRecords(r1.fan)))
             ELSE r1

\* the first await of each operation
FirstPc(o) ==
    CASE o = "signAndSendTx" -> "signTx"
      [] o = "registerAndStakeADA" -> "getRewardAddresses"
      [] o = "getBalance" -> "getBalance"
      [] OTHER -> "getUsedAddresses"

\* entering an operation: if (!this.wallet) throw new Error("Wallet not initialized")
Enter(o, a, w) ==
    LET r == [IdleInv EXCEPT !.op = o, !.arg = a]
    IN  IF ~w.exists
        THEN [r EXCEPT !.pc = "done", !.failedAt = "entry",
                       !.result = Err(NewError(<<"Wallet not initialized">>))]
        ELSE [r EXCEPT !.pc = FirstPc(o)]

\* the ledger accepts a registration only of an unregistered reward address
HasRegistration(tx) == \E i \in 1..Len(tx.certs) : tx.certs[i].type = "registerStake"

-----------------------------------------------------------------------------
(* The tool adapter: createVercelAITools(toolkit, toolsList) *)

\* tools in one list
MaxTools == 2

ToolNames == {"get_balance", "send_ada"}
Toolkits == {"kit1", "kit2"}
Params == {"params1", "params2"}
ActionResults == {"result1", "result2"}

\* the entries a toolsList is made of; two of them carry the same name
ToolDefs == {[name |-> "get_balance", description |-> "balance", action |-> "actBalance"],
             [name |-> "send_ada", description |-> "send", action |-> "actSend"],
             [name |-> "get_balance", description |-> "assets", action |-> "actAssets"]}
ToolLists == DistinctSeqs(ToolDefs, MaxTools)

NoTool == [exists |-> FALSE, name |-> "", description |-> "", action |-> "", toolkit |-> ""]

\* tool({ description, parameters, execute }): execute closes over name,
\* action and toolkit
Tool(def, toolkit) ==
    [exists |-> TRUE, name |-> def.name, description |-> def.description,
     action |-> def.action, toolkit |-> toolkit]

\* toolsList.reduce((acc, def) => { acc[name] = tool(...); return acc }, {})
RECURSIVE ReduceTools(_, _, _)
ReduceTools(acc, toolsList, toolkit) ==
    IF Len(toolsList) = 0 THEN acc
    ELSE ReduceTools([acc EXCEPT ![Head(toolsList).name] = Tool(Head(toolsList), toolkit)],
                     Tail(toolsList), toolkit)

createVercelAITools(toolkit, toolsList) ==
    ReduceTools([n \in ToolNames |-> NoTool], toolsList, toolkit)

\* an activation of execute: the calls of the action it has made, and its outcome
NoCall == [name |-> "", params |-> "", pc |-> "idle", calls |-> <<>>,
           returned |-> "", thrown |-> NoThrown, result |-> NoResult]

NoTools == [made |-> FALSE, toolkit |-> "", toolsList |-> <<>>,
            acc |-> [n \in ToolNames |-> NoTool], exec |-> NoCall]

\* the value execute resolves with
ToolValue(x) == [tag |-> "result", of |-> x]

\* execute(params) up to `await action(params, toolkit)`
ExecuteEnter(t, params) ==
    [NoCall EXCEPT !.name = t.name, !.params = params, !.pc = "action",
                   !.calls = <<[action |-> t.action, params |-> params,
                                toolkit |-> t.toolkit]>>]

\* execute after the action returned
ExecuteReturn(x, result) ==
    [x EXCEPT !.pc = "done", !.returned = result, !.result = Ok(ToolValue(result))]

\* execute after the action threw: the catch clause
ExecuteCatch(x, e) ==
    [x EXCEPT !.pc = "done", !.thrown = e,
              !.result = Err(NewError(<<"Failed to execute ", x.name, ": ">> \o MessageOf(e)))]

-----------------------------------------------------------------------------
(* Actions *)

Init ==
    /\ phase = "Uninitialized"
    /\ given = [providerType |-> "", apiKey |-> "", network |-> Undefined,
                imp |-> Undefined]
    /\ ctorError = <<>>
    /\ networkId = NoNetworkId
    /\ provider = NoProvider
    /\ mnemonic = NoWords
    /\ privateKey = NoKey
    /\ wallet = NoWallet
    /\ netCalled = FALSE
    /\ stakeRegistered \in BOOLEAN
    /\ inv = [p \in Procs |-> IdleInv]
    /\ tools = NoTools

\* new MeshSDK(providerType, apiKey, network, mnemonicOrBech32)
Construct ==
    /\ phase = "Uninitialized"
    /\ \E pt \in ProviderTypes, k \in ApiKeys, n \in Networks, imp \in ImportMaterials,
          brewed \in BrewedMnemonics, walletOk \in BOOLEAN :
          LET o == Constructor(pt, k, n, imp, brewed, walletOk)
          IN  /\ given' = [providerType |-> pt, apiKey |-> k, network |-> n, imp |-> imp]
              /\ ctorError' = o.error
              /\ networkId' = o.networkId
              /\ provider' = o.provider
              /\ mnemonic' = o.mnemonic
              /\ privateKey' = o.privateKey
              /\ wallet' = o.wallet
              /\ phase' = IF o.error = <<>> THEN "Initialized" ELSE "Failed"
    /\ UNCHANGED <<netCalled, stakeRegistered, inv, tools>>

\* a step of an invocation that ends in failure also drops the wallet handle
StepDroppingWallet(p, r) ==
    /\ inv' = [inv EXCEPT ![p] = r]
    /\ wallet' = IF r.result.status = "error" THEN NoWallet ELSE wallet
    /\ UNCHANGED <<phase, given, ctorError, networkId, provider, mnemonic, privateKey,
                   tools>>

\* a step of invocation p: it changes its own activation record only, no
\* method assigns a field of the session
Step(p, r) ==
    /\ inv' = [inv EXCEPT ![p] = r]
    /\ UNCHANGED <<phase, given, ctorError, networkId, provider, mnemonic, privateKey,
                   wallet, tools>>

\* the caller invokes an operation; one intent at a time on a session
Call(p) ==
    /\ phase = "Initialized"
    /\ \A q \in Procs : inv[q].pc = "idle"
    /\ \E o \in Ops : \E a \in ArgsOf(o) : Step(p, Enter(o, a, wallet))
    /\ UNCHANGED <<netCalled, stakeRegistered>>

GetUsedAddresses(p) ==
    /\ inv[p].pc = "getUsedAddresses"
    /\ \/ \E used \in UsedLists : Step(p, OnUsedAddresses(inv[p], wallet, provider, used))
       \/ \E e \in LibErrors : Step(p, Throw(inv[p], "address", GetAddressCatch(e)))
    /\ netCalled' = TRUE
    /\ UNCHANGED stakeRegistered

GetUnusedAddresses(p) ==
    /\ inv[p].pc = "getUnusedAddresses"
    /\ \/ \E unused \in UnusedLists : Step(p, OnUnusedAddresses(inv[p], wallet, provider, unused))
       \/ \E e \in LibErrors : Step(p, Throw(inv[p], "address", GetAddressCatch(e)))
    /\ netCalled' = TRUE
    /\ UNCHANGED stakeRegistered

GetRewardAddresses(p) ==
    /\ inv[p].pc = "getRewardAddresses"
    /\ \/ \E list \in RewardLists : Step(p, OnRewardAddresses(inv[p], list))
       \/ \E e \in LibErrors : Step(p, Throw(inv[p], "address", e))
    /\ netCalled' = TRUE
    /\ UNCHANGED stakeRegistered

FetchAccountInfo(p) ==
    /\ inv[p].pc = "fetchAccountInfo"
    /\ \/ \E info \in AccountInfos(stakeRegistered) :
             Step(p, OnAccountInfo(inv[p], wallet, info, stakeRegistered))
       \/ \E e \in LibErrors : Step(p, Throw(inv[p], "accountInfo", e))
    /\ netCalled' = TRUE
    /\ UNCHANGED stakeRegistered

\* the built transaction kept in one place that all invocations share
BuildIntoSharedSlot(p) ==
    /\ inv[p].pc = "build"
    /\ \E ok \in BOOLEAN, e \in LibErrors :
          LET r == OnBuild(inv[p], ok, IF ok THEN NoThrown ELSE e)
          IN  inv' = [q \in Procs |->
                        IF q = p THEN r
                        ELSE [inv[q] EXCEPT !.unsignedTx = r.unsignedTx]]
    /\ netCalled' = TRUE
    /\ UNCHANGED <<phase, given, ctorError, networkId, provider, mnemonic, privateKey,
                   wallet, tools, stakeRegistered>>

Build(p) ==
    /\ inv[p].pc = "build"
    /\ \/ Step(p, OnBuild(inv[p], TRUE, NoThrown))
       \/ \E e \in LibErrors : Step(p, OnBuild(inv[p], FALSE, e))
    /\ netCalled' = TRUE
    /\ UNCHANGED stakeRegistered

SignTx(p) ==
    /\ inv[p].pc = "signTx"
    /\ \/ Step(p, OnSign(inv[p], TRUE, NoThrown))
       \/ \E e \in LibErrors : Step(p, OnSign(inv[p], FALSE, e))
    /\ netCalled' = TRUE
    /\ UNCHANGED stakeRegistered

SubmitTx(p) ==
    /\ inv[p].pc = "submitTx"
    /\ \/ /\ HasRegistration(inv[p].signedTx.body) => ~stakeRegistered
          /\ Step(p, OnSubmit(inv[p], TRUE, NoThrown))
          /\ stakeRegistered' = (stakeRegistered \/ HasRegistration(inv[p].signedTx.body))
       \/ /\ \E e \in LibErrors : Step(p, OnSubmit(inv[p], FALSE, e))
          /\ UNCHANGED stakeRegistered
    /\ netCalled' = TRUE

GetBalance(p) ==
    /\ inv[p].pc = "getBalance"
    /\ \/ \E ans \in BalanceAnswers : Step(p, OnBalance(inv[p], ans))
       \/ \E e \in LibErrors : Step(p, Throw(inv[p], "getBalance", e))
    /\ netCalled' = TRUE
    /\ UNCHANGED stakeRegistered

\* one of the metadata fetches that are in flight answers or throws
FetchAssetMetadata(p) ==
    /\ inv[p].pc = "fetchAssetMetadata"
    /\ \E i \in 1..Len(inv[p].fan) :
          /\ inv[p].fan[i].state = "pending"
          /\ \/ Step(p, OnAssetMetadata(inv[p], i, TRUE, MetadataOf(inv[p].fan[i].rec.unit)))
             \/ Step(p, OnAssetMetadata(inv[p], i, FALSE, Null))
    /\ netCalled' = TRUE
    /\ UNCHANGED stakeRegistered

FetchAddressTransactions(p) ==
    /\ inv[p].pc = "fetchAddressTransactions"
    /\ \/ \E ans \in HistoryAnswers : Step(p, OnAddressTransactions(inv[p], ans))
       \/ \E e \in LibErrors :
             Step(p, Throw([inv[p] EXCEPT !.nList = @ + 1], "fetchAddressTransactions", e))
    /\ netCalled' = TRUE
    /\ UNCHANGED stakeRegistered

\* the callbacks of getTransactionHistory run on after a rejection of the
\* Promise.all they were given to
TxCallbacksAlive(p) ==
    inv[p].op = "getTransactionHistory" /\ inv[p].pc \in {"fetchTxDetails", "done"}

FetchTxInfo(p) ==
    /\ TxCallbacksAlive(p)
    /\ \E i \in 1..Len(inv[p].fan) :
          /\ inv[p].fan[i].state = "info"
          /\ \/ Step(p, OnTxInfo(inv[p], i, TRUE, TxInfoOf(inv[p].fan[i].hash), NoThrown))
             \/ \E e \in LibErrors : Step(p, OnTxInfo(inv[p], i, FALSE, NoTxInfo, e))
    /\ netCalled' = TRUE
    /\ UNCHANGED stakeRegistered

FetchUTxOs(p) ==
    /\ TxCallbacksAlive(p)
    /\ \E i \in 1..Len(inv[p].fan) :
          /\ inv[p].fan[i].state = "utxos"
          /\ \/ Step(p, OnUTxOs(inv[p], i, TRUE, UTxOsOf(inv[p].fan[i].hash), NoThrown))
             \/ \E e \in LibErrors : Step(p, OnUTxOs(inv[p], i, FALSE, NoUTxOs, e))
    /\ netCalled' = TRUE
    /\ UNCHANGED stakeRegistered

\* the promise is settled and the caller has taken the outcome
Settle(p) ==
    /\ inv[p].pc = "done"
    /\ Step(p, IdleInv)
    /\ UNCHANGED <<netCalled, stakeRegistered>>

Next ==
    \/ Construct
    \/ \E p \in Procs :
          \/ Call(p)
          \/ GetUsedAddresses(p)
          \/ GetUnusedAddresses(p)
          \/ GetRewardAddresses(p)
          \/ FetchAccountInfo(p)
          \/ Build(p)
          \/ SignTx(p)
          \/ SubmitTx(p)
          \/ GetBalance(p)
          \/ FetchAssetMetadata(p)
          \/ FetchAddressTransactions(p)
          \/ FetchTxInfo(p)
          \/ FetchUTxOs(p)
          \/ Settle(p)

Spec == Init /\ [][Next]_vars

\* A session as the tests construct it, used for one intent after another:
\* the outcome of the previous intent stays in its slot while the next runs.
InitSeq ==
    LET o == Constructor("blockfrost", "testnet-key-123", StringArg("testnet"),
                         ArrayArg(Mnemonic24), <<>>, TRUE)
    IN  /\ phase = "Initialized"
        /\ given = [providerType |-> "blockfrost", apiKey |-> "testnet-key-123",
                    network |-> StringArg("testnet"), imp |-> ArrayArg(Mnemonic24)]
        /\ ctorError = o.error
        /\ networkId = o.networkId
        /\ provider = o.provider
        /\ mnemonic = o.mnemonic
        /\ privateKey = o.privateKey
        /\ wallet = o.wallet
        /\ netCalled = FALSE
        /\ stakeRegistered \in BOOLEAN
        /\ inv = [p \in Procs |-> IdleInv]
        /\ tools = NoTools

\* the caller starts the next intent once every earlier one has resolved;
\* the slots are taken in order
CallIntent(p) ==
    /\ phase = "Initialized"
    /\ \A q \in Procs : inv[q].pc = IF q < p THEN "done" ELSE "idle"
    /\ \E o \in Intents : \E a \in ArgsOf(o) : Step(p, Enter(o, a, wallet))
    /\ UNCHANGED <<netCalled, stakeRegistered>>

NextSeq ==
    \E p \in Procs :
        \/ CallIntent(p)
        \/ GetUsedAddresses(p)
        \/ GetUnusedAddresses(p)
        \/ GetRewardAddresses(p)
        \/ FetchAccountInfo(p)
        \/ Build(p)
        \/ SignTx(p)
        \/ SubmitTx(p)

SpecSeq == InitSeq /\ [][NextSeq]_vars

\* The caller starts an intent in a free slot whether or not the intent of
\* the other slot has resolved: the session has no lock.
CallConcurrently(p) ==
    /\ phase = "Initialized"
    /\ inv[p].pc = "idle"
    /\ \E o \in Intents : \E a \in ArgsOf(o) : Step(p, Enter(o, a, wallet))
    /\ UNCHANGED <<netCalled, stakeRegistered>>

NextPar ==
    \E p \in Procs :
        \/ CallConcurrently(p)
        \/ GetUsedAddresses(p)
        \/ GetUnusedAddresses(p)
        \/ GetRewardAddresses(p)
        \/ FetchAccountInfo(p)
        \/ Build(p)
        \/ SignTx(p)
        \/ SubmitTx(p)

\* the session of the tests with intents that overlap; outcomes stay in
\* their slots
SpecPar == InitSeq /\ [][NextPar]_vars

\* a call of the wallet, the provider or the transaction builder that is in
\* flight answers, with a result or by throwing
Respond ==
    \E p \in Procs :
        \/ GetUsedAddresses(p)
        \/ GetUnusedAddresses(p)
        \/ GetRewardAddresses(p)
        \/ FetchAccountInfo(p)
        \/ Build(p)
        \/ SignTx(p)
        \/ SubmitTx(p)
        \/ GetBalance(p)
        \/ FetchAssetMetadata(p)
        \/ FetchAddressTransactions(p)
        \/ FetchTxInfo(p)
        \/ FetchUTxOs(p)

\* A session as the tests construct it, on a provider with address listing or
\* on one without.
InitLive ==
    \E pt \in {"blockfrost", "koios"} :
        LET o == Constructor(pt, "testnet-key-123", StringArg("testnet"),
                             ArrayArg(Mnemonic24), <<>>, TRUE)
        IN  /\ phase = "Initialized"
            /\ given = [providerType |-> pt, apiKey |-> "testnet-key-123",
                        network |-> StringArg("testnet"), imp |-> ArrayArg(Mnemonic24)]
            /\ ctorError = o.error
            /\ networkId = o.networkId
            /\ provider = o.provider
            /\ mnemonic = o.mnemonic
            /\ privateKey = o.privateKey
            /\ wallet = o.wallet
            /\ netCalled = FALSE
            /\ stakeRegistered \in BOOLEAN
            /\ inv = [p \in Procs |-> IdleInv]
            /\ tools = NoTools

NextLive == \E p \in Procs : Call(p) \/ Settle(p) \/ Respond

\* The session with a library whose calls all answer in the end; when and
\* whether the caller calls is left open.
SpecLive == InitLive /\ [][NextLive]_vars /\ WF_vars(Respond)

-----------------------------------------------------------------------------
(* The tool adapter on its own: the tools are made once and executed one   *)
(* call at a time; what an action does with the toolkit is the             *)
(* environment's, it returns a result or throws.                           *)

AdapterStep(t) ==
    /\ tools' = t
    /\ UNCHANGED <<phase, given, ctorError, networkId, provider, mnemonic, privateKey,
                   wallet, netCalled, stakeRegistered, inv>>

CreateTools ==
    /\ ~tools.made
    /\ \E kit \in Toolkits, toolsList \in ToolLists :
          AdapterStep([tools EXCEPT !.made = TRUE, !.toolkit = kit,
                                    !.toolsList = toolsList,
                                    !.acc = createVercelAITools(kit, toolsList)])

Execute ==
    /\ tools.made
    /\ tools.exec.pc = "idle"
    /\ \E n \in ToolNames, params \in Params :
          /\ tools.acc[n].exists
          /\ AdapterStep([tools EXCEPT !.exec = ExecuteEnter(tools.acc[n], params)])

ActionReturns ==
    /\ tools.exec.pc = "action"
    /\ \E result \in ActionResults :
          AdapterStep([tools EXCEPT !.exec = ExecuteReturn(tools.exec, result)])

ActionThrows ==
    /\ tools.exec.pc = "action"
    /\ \E e \in LibErrors :
          AdapterStep([tools EXCEPT !.exec = ExecuteCatch(tools.exec, e)])

\* the caller has taken the outcome
ExecuteSettle ==
    /\ tools.exec.pc = "done"
    /\ AdapterStep([tools EXCEPT !.exec = NoCall])

NextTools ==
    \/ CreateTools
    \/ Execute
    \/ ActionReturns
    \/ ActionThrows
    \/ ExecuteSettle

SpecTools == Init /\ [][NextTools]_vars

-----------------------------------------------------------------------------
(* Claims *)

Finished(p, o) == inv[p].op = o /\ inv[p].pc = "done"

\* C1: getAddress returns the first used address whenever the used-address
\* list it got is non-empty, without consulting the unused list; only when
\* the used list is empty does it return the first unused address; when both
\* lists are empty it fails with "No addresses found" and returns no address.
C1_GetAddressPriority ==
    \A p \in Procs :
        Finished(p, "getAddress") /\ inv[p].usedSeen.seen =>
            LET r == inv[p]
                used == r.usedSeen.list
                unused == r.unusedSeen.list
            IN  /\ Len(used) > 0 =>
                      /\ r.result = Ok(AddressValue(used[1]))
                      /\ ~r.unusedSeen.seen
                /\ Len(used) = 0 /\ r.unusedSeen.seen /\ Len(unused) > 0 =>
                      r.result = Ok(AddressValue(unused[1]))
                /\ r.result.status = "ok" /\ r.unusedSeen.seen =>
                      Len(used) = 0 /\ r.result.value.address = unused[1]
                /\ Len(used) = 0 /\ r.unusedSeen.seen /\ Len(unused) = 0 =>
                      /\ r.result.status = "error"
                      /\ r.result.value = NoValue
                      /\ r.result.error = NewError(
                            <<"Error fetching wallet address: ", "Error: ",
                              "No addresses found. Try receiving funds first.">>)

\* C1 witness: getAddress got two used addresses and returned the first
C1_Witness ==
    \E p \in Procs :
        /\ Finished(p, "getAddress")
        /\ inv[p].usedSeen = Seen(<<"addr_used1", "addr_used2">>)
        /\ inv[p].result = Ok(AddressValue("addr_used1"))

IsPhrase(imp) == imp.defined /\ imp.isArray /\ Len(imp.words) \in {12, 24}
IsRootKey(imp) == imp.defined /\ ~imp.isArray

\* C2: on a constructed session, at any time, getMnemonic returns exactly the
\* 12- or 24-word sequence given at construction, and getPrivateKey exactly
\* the root-key string given at construction.
C2_ImportRoundTrip ==
    phase = "Initialized" =>
        /\ IsPhrase(given.imp) =>
              getMnemonic = [defined |-> TRUE, words |-> given.imp.words]
        /\ IsRootKey(given.imp) =>
              getPrivateKey = [defined |-> TRUE, str |-> given.imp.str]

\* C2 witness: a session restored from the 24-word phrase, after an operation
\* has run on it, still answers with the phrase
C2_Witness ==
    /\ phase = "Initialized"
    /\ given.imp = ArrayArg(Mnemonic24)
    /\ getMnemonic.words = Mnemonic24
    /\ \E p \in Procs : inv[p].pc = "done" /\ inv[p].op \in Intents

\* C3: in every constructed session exactly one of mnemonic and privateKey is
\* populated; a root-key string leaves the mnemonic absent, and a mnemonic
\* (imported or generated) leaves the private key absent.
C3_KeyMaterialExclusive ==
    phase = "Initialized" =>
        /\ getMnemonic.defined # getPrivateKey.defined
        /\ IsRootKey(given.imp) => ~getMnemonic.defined /\ getPrivateKey.defined
        /\ ~IsRootKey(given.imp) => getMnemonic.defined /\ ~getPrivateKey.defined

\* C3 witness: a session constructed from a root-key string
C3_Witness ==
    /\ phase = "Initialized"
    /\ given.imp = StringArg("xprv1root")
    /\ getPrivateKey.defined
    /\ ~getMnemonic.defined

ConfigInvalid == given.apiKey = "" \/ ~KnownProvider(given.providerType)

\* C4: with an empty API key or an unknown provider kind the constructor
\* throws its configuration error before any key material is resolved, before
\* the wallet handle is created and before any network call; no session
\* exists afterwards, so nothing is ever invoked on it.
C4_ConfigValidatedFirst ==
    phase # "Uninitialized" /\ ConfigInvalid =>
        /\ phase = "Failed"
        /\ ctorError = IF given.apiKey = "" THEN <<"API key is required">>
                       ELSE <<"Invalid provider type">>
        /\ ~mnemonic.defined
        /\ ~privateKey.defined
        /\ ~wallet.exists
        /\ provider = NoProvider
        /\ ~netCalled
        /\ \A p \in Procs : inv[p] = IdleInv

\* C4 witness: construction with an API key and an unknown provider kind failed
C4_Witness ==
    /\ phase = "Failed"
    /\ given.providerType = "infura"
    /\ given.apiKey # ""
    /\ given.imp = ArrayArg(Mnemonic12)
    /\ ctorError = <<"Invalid provider type">>

\* C5: a session constructed without a network argument is on Testnet
\* (networkId 0), and one constructed without import material holds a freshly
\* generated mnemonic of at least 12 words and no private key.
C5_ConstructionDefaults ==
    phase = "Initialized" =>
        /\ ~given.network.defined => networkId = 0 /\ wallet.networkId = 0
        /\ ~given.imp.defined =>
              /\ getMnemonic.defined
              /\ getMnemonic.words \in BrewedMnemonics
              /\ Len(getMnemonic.words) >= 12
              /\ wallet.key = [type |-> "mnemonic", words |-> getMnemonic.words,
                               bech32 |-> ""]
              /\ ~getPrivateKey.defined

\* C5 witness: construction with provider kind and API key only
C5_Witness ==
    /\ phase = "Initialized"
    /\ given.providerType = "blockfrost"
    /\ ~given.network.defined
    /\ ~given.imp.defined
    /\ networkId = 0
    /\ getMnemonic.defined

\* C6: a successful signAndSendTx has signed, then submitted, the transaction
\* and returns the hash of that submission; it never succeeds without a
\* submission.
C6_SignThenSubmit ==
    \A p \in Procs :
        Finished(p, "signAndSendTx") /\ inv[p].result.status = "ok" =>
            /\ inv[p].nSign = 1
            /\ inv[p].nSubmit = 1
            /\ inv[p].result.value = TxHashValue(Signed(inv[p].arg.txHex))

Phases == {"build", "sign", "submit"}

\* C7: an intent runs build, sign and submit in that order and each at most
\* once: sign starts only after a build that succeeded, submit only after a
\* sign that succeeded, nothing is built when the sender or reward address
\* could not be resolved, and a success has gone through all three.
C7_PhasesInOrderOnce ==
    \A p \in Procs :
        inv[p].op \in Intents =>
            LET r == inv[p]
            IN  /\ r.nBuild <= 1 /\ r.nSign <= 1 /\ r.nSubmit <= 1
                /\ r.nSign = 1 =>
                      r.nBuild = 1 /\ r.failedAt # "build" /\ r.unsignedTx = r.tx
                /\ r.nSubmit = 1 =>
                      r.nSign = 1 /\ r.failedAt # "sign" /\ r.signedTx = Signed(r.unsignedTx)
                /\ r.failedAt = "build" => r.nSign = 0 /\ r.nSubmit = 0 /\ r.pc = "done"
                /\ r.failedAt = "sign" => r.nSubmit = 0 /\ r.pc = "done"
                /\ r.failedAt = "address" =>
                      r.tx = NoTx /\ r.nBuild = 0 /\ r.nSign = 0 /\ r.nSubmit = 0
                /\ r.failedAt = "accountInfo" => r.nBuild = 0 /\ r.nSign = 0 /\ r.nSubmit = 0
                /\ r.result.status = "ok" => r.nBuild = 1 /\ r.nSign = 1 /\ r.nSubmit = 1
                /\ r.pc = "signTx" => r.nBuild = 1 /\ r.nSign = 0
                /\ r.pc = "submitTx" => r.nSign = 1 /\ r.nSubmit = 0

\* C7 witness: an intent whose build failed ended without signing or submitting
C7_Witness ==
    \E p \in Procs :
        /\ inv[p].op \in Intents
        /\ inv[p].pc = "done"
        /\ inv[p].failedAt = "build"
        /\ inv[p].nBuild = 1
        /\ inv[p].nSign = 0
        /\ inv[p].nSubmit = 0

FailedIn(p, ph) ==
    inv[p].op \in Intents /\ inv[p].pc = "done" /\ inv[p].failedAt = ph

C9_FailuresWrapped ==
    \A p \in Procs :
        \A ph \in Phases :
            FailedIn(p, ph) =>
                /\ inv[p].result.error # inv[p].cause
                /\ inv[p].result.error.isError
                /\ Len(inv[p].result.error.msg) > Len(inv[p].cause.msg)

Delegations(tx) == {i \in 1..Len(tx.certs) : tx.certs[i].type = "delegateStake"}
Registrations(tx) == {i \in 1..Len(tx.certs) : tx.certs[i].type = "registerStake"}

\* C10: the transaction registerAndStakeADA builds holds a stake registration
\* exactly when the account query of that call answered no account or an
\* inactive one, so never when the reward address was registered at the query;
\* it always holds one delegation of the reward address to the given pool.
C10_RegisterOnlyIfUnregistered ==
    \A p \in Procs :
        inv[p].op = "registerAndStakeADA" /\ inv[p].infoSeen.seen =>
            LET r == inv[p]
                info == r.infoSeen.info
            IN  /\ (Registrations(r.tx) # {}) = ~(info.present /\ info.active)
                /\ Cardinality(Registrations(r.tx)) <= 1
                /\ r.infoSeen.registered => Registrations(r.tx) = {}
                /\ Cardinality(Delegations(r.tx)) = 1
                /\ \A i \in Delegations(r.tx) :
                      /\ r.tx.certs[i].poolId = r.arg.poolId
                      /\ r.tx.certs[i].rewardAddress = r.rewardAddress
                /\ r.nBuild = 1 /\ r.failedAt # "build" => r.unsignedTx = r.tx

\* C10 witness: a call on a registered reward address went through, and its
\* transaction holds the delegation only
C10_Witness ==
    \E p \in Procs :
        /\ Finished(p, "registerAndStakeADA")
        /\ inv[p].result.status = "ok"
        /\ inv[p].infoSeen.registered
        /\ Len(inv[p].unsignedTx.certs) = 1
        /\ inv[p].unsignedTx.certs[1].type = "delegateStake"
        /\ inv[p].unsignedTx.certs[1].poolId = "pool2"

\* the stake-address prefix of a network: stake_test1 on Testnet, stake1 on Mainnet
StakeTestPrefix == <<"s", "t", "a", "k", "e", "_", "t", "e", "s", "t", "1">>
StakeMainPrefix == <<"s", "t", "a", "k", "e", "1">>
ExpectedStakePrefix(id) == IF id = 1 THEN StakeMainPrefix ELSE StakeTestPrefix

\* C11: registerAndStakeADA fails with the invalid-stake-address error whenever
\* the reward address it got does not carry the stake prefix of the session's
\* network, and then makes no account query, build, sign or submit.
C11_StakePrefixOfNetwork ==
    \A p \in Procs :
        LET r == inv[p]
        IN  /\ r.op = "registerAndStakeADA"
            /\ r.rewardSeen.seen
            /\ Len(r.rewardSeen.list) > 0
            /\ ~StartsWith(r.rewardSeen.list[1], ExpectedStakePrefix(networkId))
            =>  /\ r.pc = "done"
                /\ r.result.status = "error"
                /\ r.failedAt = "address"
                /\ ~r.infoSeen.seen
                /\ r.nBuild = 0 /\ r.nSign = 0 /\ r.nSubmit = 0


\* the invocation p is a getBalance whose wallet answered an array
BalanceListed(p) ==
    inv[p].op = "getBalance" /\ inv[p].rawSeen.seen /\ inv[p].rawSeen.isArray

\* C12: getBalance on an empty balance returns an empty list, and an entry
\* whose unit is lovelace becomes a record with policyId null, assetName "ADA"
\* and metadata null, for which no metadata fetch is ever issued.
C12_NativeAndEmptyBalance ==
    \A p \in Procs :
        BalanceListed(p) =>
            LET r == inv[p]
                raw == r.rawSeen.list
            IN  /\ Len(r.fan) = Len(raw)
                /\ \A i \in 1..Len(raw) :
                      raw[i].unit = Lovelace =>
                          /\ r.fan[i].fetch = "none"
                          /\ r.fan[i].rec.policyId = Null
                          /\ r.fan[i].rec.assetName = AdaName
                          /\ r.fan[i].rec.metadata = Null
                /\ r.pc = "done" =>
                      /\ r.result.status = "ok"
                      /\ r.result.value.tag = "array"
                      /\ Len(raw) = 0 => r.result.value.list = <<>>
                      /\ \A i \in 1..Len(raw) :
                            raw[i].unit = Lovelace => r.result.value.list[i] = r.fan[i].rec

\* a finished getBalance of lovelace and a token, the token first
C12_Witness ==
    \E p \in Procs :
        /\ BalanceListed(p) /\ inv[p].pc = "done"
        /\ Len(inv[p].rawSeen.list) = 2
        /\ inv[p].rawSeen.list[2].unit = Lovelace
        /\ inv[p].result.value.list[2].policyId = Null

\* C13: a metadata fetch that fails costs only the metadata of its own asset:
\* whichever fetches fail, getBalance succeeds with one record per entry of
\* the balance, in its order, unit and quantity unchanged; metadata is null
\* for lovelace and for the assets whose fetch failed and is the fetched
\* metadata for every other asset.
C13_MetadataFailureIsolated ==
    \A p \in Procs :
        BalanceListed(p) =>
            LET r == inv[p]
                raw == r.rawSeen.list
            IN  /\ r.failedAt = "none"
                /\ r.result.status # "error"
                /\ r.pc = "done" =>
                      LET out == r.result.value.list
                      IN  /\ r.result.status = "ok"
                          /\ Len(out) = Len(raw)
                          /\ \A i \in 1..Len(raw) :
                                /\ out[i].unit = raw[i].unit
                                /\ out[i].quantity = raw[i].quantity
                                /\ r.fan[i].fetch \in {"none", "ok", "failed"}
                                /\ r.fan[i].fetch = "none" <=> raw[i].unit = Lovelace
                                /\ out[i].metadata = Null <=>
                                      raw[i].unit = Lovelace \/ r.fan[i].fetch = "failed"
                                /\ r.fan[i].fetch = "ok" =>
                                      out[i].metadata = MetadataOf(raw[i].unit)

\* a finished getBalance of two tokens, the fetch of the first failed and the
\* second carries its metadata
C13_Witness ==
    \E p \in Procs :
        /\ BalanceListed(p) /\ inv[p].pc = "done"
        /\ Len(inv[p].fan) = 2
        /\ inv[p].fan[1].fetch = "failed"
        /\ inv[p].fan[2].fetch = "ok"
        /\ inv[p].result.value.list[1].metadata = Null
        /\ inv[p].result.value.list[2].metadata # Null

\* "AB" and e-acute
NameAB == <<65, 66>>
NameOdd == <<233>>

\* C14: a unit other than lovelace and longer than 56 characters is split at
\* character 56: policyId is the first 56 characters, assetName is the text
\* decoded from the characters after them, and policyId followed by those
\* characters is the unit.
C14_UnitSplitAt56 ==
    \A p \in Procs :
        BalanceListed(p) =>
            \A i \in 1..Len(inv[p].fan) :
                LET unit == inv[p].rawSeen.list[i].unit
                    rec == inv[p].fan[i].rec
                    rest == SubSeq(unit, Len(rec.policyId.of) + 1, Len(unit))
                IN  unit # Lovelace /\ Len(unit) > 56 =>
                        /\ ~rec.policyId.isNull
                        /\ Len(rec.policyId.of) = 56
                        /\ rec.policyId.of = SubSeq(unit, 1, 56)
                        /\ rec.policyId.of \o rest = unit
                        /\ rec.assetName = Utf8Text(HexBytes(rest))
                        /\ unit = TokenAB => rec.assetName = NameAB
                        /\ unit = TokenOdd => rec.assetName = NameOdd

\* a finished getBalance that returns the token named by c3a9 and a stray digit
C14_Witness ==
    \E p \in Procs :
        /\ BalanceListed(p) /\ inv[p].pc = "done"
        /\ \E i \in 1..Len(inv[p].fan) :
              /\ inv[p].rawSeen.list[i].unit = TokenOdd
              /\ inv[p].result.value.list[i].assetName = NameOdd


\* the error of getTransactionHistory on a provider without address listing
UnsupportedHistory ==
    NewError(<<"Error fetching transaction history: ",
               "Transaction history is only supported with Blockfrost.">>)

\* the fetches of getTransactionHistory that invocation p has issued
HistoryFetches(p) == inv[p].nList + Len(inv[p].fan)

\* C15: getTransactionHistory on a session whose provider is not Blockfrost
\* fails with the unsupported-provider error whatever the wallet and the
\* provider answer, and issues no fetchAddressTransactions, fetchTxInfo or
\* fetchUTxOs.
C15_UnsupportedProviderFails ==
    \A p \in Procs :
        inv[p].op = "getTransactionHistory" /\ provider.kind # "BlockfrostProvider" =>
            /\ HistoryFetches(p) = 0
            /\ inv[p].pc = "done" => inv[p].result = Err(UnsupportedHistory)


\* the provider answered invocation p of getTransactionHistory with no
\* transactions: an empty list or none at all
NoTransactions(p) ==
    /\ inv[p].op = "getTransactionHistory"
    /\ inv[p].rawSeen.seen
    /\ ~inv[p].rawSeen.isArray \/ Len(inv[p].rawSeen.list) = 0

\* C16: getTransactionHistory on an empty or absent transaction list returns
\* an empty list, never an error, and issues no fetchTxInfo and no fetchUTxOs.
C16_EmptyHistory ==
    \A p \in Procs :
        NoTransactions(p) =>
            /\ inv[p].pc = "done"
            /\ inv[p].result = Ok(ListValue(<<>>))
            /\ inv[p].failedAt = "none"
            /\ inv[p].fan = <<>>
            /\ inv[p].nList = 1

\* the provider answered an empty list and the caller got the empty list
C16_Witness ==
    \E p \in Procs :
        /\ NoTransactions(p) /\ inv[p].rawSeen.isArray
        /\ inv[p].result.status = "ok"
        /\ inv[p].result.value.list = <<>>


\* a call that invocation p awaited has thrown: the step at which the
\* invocation was left, or a callback of getTransactionHistory that failed
CallFailed(p) ==
    \/ inv[p].failedAt # "none"
    \/ /\ inv[p].op = "getTransactionHistory"
       /\ \E i \in 1..Len(inv[p].fan) : inv[p].fan[i].state = "failed"

Names(msg, part) == \E i \in 1..Len(msg) : msg[i] = part

\* msg has the parts of cause, in their order, among its parts
NamesCause(msg, cause) ==
    \E k \in 0..Len(msg) :
        k + Len(cause) <= Len(msg) /\ SubSeq(msg, k + 1, k + Len(cause)) = cause

\* C18: execute of a tool calls that tool's action exactly once, with the
\* parameters it received and the toolkit the tools were made for; when the
\* action returns, execute returns its result unchanged; when the action
\* throws, execute returns nothing and throws an error that names the tool
\* and the cause.
C18_AdapterForwards ==
    LET x == tools.exec
    IN  x.pc # "idle" =>
            /\ Len(x.calls) = 1
            /\ x.calls[1] = [action |-> tools.acc[x.name].action, params |-> x.params,
                             toolkit |-> tools.toolkit]
            /\ x.pc = "done" /\ x.thrown = NoThrown =>
                  x.result = Ok(ToolValue(x.returned))
            /\ x.pc = "done" /\ x.thrown # NoThrown =>
                  /\ x.result.status = "error"
                  /\ x.result.value = NoValue
                  /\ Names(x.result.error.msg, x.name)
                  /\ NamesCause(x.result.error.msg, x.thrown.msg)


Transfers == {"sendLovelace", "sendAsset"}

\* the address of the session as the wallet's answers to invocation p give it
OwnAddress(p) ==
    IF Len(inv[p].usedSeen.list) > 0 THEN inv[p].usedSeen.list[1]
    ELSE inv[p].unusedSeen.list[1]

\* C19: a transaction that sendLovelace or sendAsset builds has as change
\* address the session's own address, the one getAddress resolved in the same
\* invocation, and exactly one output, to the recipient given; it is that
\* transaction that is signed.
C19_ChangeToOwnAddress ==
    \A p \in Procs :
        inv[p].op \in Transfers /\ inv[p].nBuild > 0 =>
            LET r == inv[p]
            IN  /\ r.address = OwnAddress(p)
                /\ r.tx.changeAddress = r.address
                /\ r.tx.changeAddress # ""
                /\ Len(r.tx.outputs) = 1
                /\ r.tx.outputs[1].address = r.arg.recipient
                /\ r.tx.outputs[1].quantity = r.arg.quantity
                /\ r.nSign > 0 => r.unsignedTx = r.tx
                /\ r.nSubmit > 0 /\ r.failedAt = "none" => r.signedTx.body = r.tx

\* a sendAsset submitted from a wallet without used addresses: the change goes
\* to its first unused address
C19_Witness ==
    \E p \in Procs :
        /\ inv[p].op = "sendAsset" /\ inv[p].pc = "done"
        /\ inv[p].result.status = "ok"
        /\ inv[p].usedSeen.list = <<>>
        /\ inv[p].tx.changeAddress = "addr_new1"
        /\ inv[p].tx.outputs[1].address = "addr_r"


\* C20: once constructed, a session keeps its network selector, key material,
\* provider and wallet handle through every step of every operation, whether
\* the operation succeeds or fails; its phase changes only at construction,
\* from Uninitialized.
C20_SessionImmutable ==
    [][/\ phase # "Uninitialized" => session' = session /\ phase' = phase
       /\ phase' # phase => phase = "Uninitialized" /\ phase' \in {"Initialized", "Failed"}]_vars

\* a mainnet session made from a 24-word phrase still holds its phrase, its
\* provider and its wallet after a getTransactionHistory that failed
C20_Witness ==
    /\ phase = "Initialized"
    /\ given.imp = ArrayArg(Mnemonic24)
    /\ mnemonic.words = Mnemonic24
    /\ ~privateKey.defined
    /\ networkId = 1
    /\ provider = SelectProvider(given.providerType, given.apiKey, "mainnet")
    /\ wallet.exists /\ wallet.fetcher = provider
    /\ \E p \in Procs :
          /\ inv[p].op = "getTransactionHistory" /\ inv[p].pc = "done"
          /\ inv[p].failedAt = "fetchTxInfo"


FanOuts == {"getBalance", "getTransactionHistory"}

\* every fetch that invocation p fanned out has answered
AllResolved(p) ==
    \A i \in 1..Len(inv[p].fan) : inv[p].fan[i].state \in {"done", "failed"}

\* C21 (as claimed, its part on the fan-out): getBalance and
\* getTransactionHistory return, with a result or a failure, only after every
\* fetch they fanned out has answered.
C21_ReturnsAfterAllResolved ==
    \A p \in Procs :
        inv[p].op \in FanOuts /\ inv[p].pc = "done" => AllResolved(p)

\* C21 (amended): when every call of the library answers in the end, every
\* operation that was started ends, with a result or a failure; getBalance
\* ends only after all its metadata fetches have answered, and
\* getTransactionHistory returns a result only after all its fetches have
\* answered, while it fails at the first fetch that fails, with the fetches
\* of the other transactions possibly still in flight.
C21_OperationsEnd ==
    /\ \A p \in Procs : (inv[p].pc \notin {"idle", "done"}) ~> (inv[p].pc = "done")
    /\ [](\A p \in Procs :
            /\ inv[p].op = "getBalance" /\ inv[p].pc = "done" => AllResolved(p)
            /\ inv[p].op = "getTransactionHistory" /\ inv[p].result.status = "ok" =>
                  AllResolved(p)
            /\ inv[p].op \in FanOuts /\ inv[p].pc = "done" /\ ~AllResolved(p) =>
                  /\ inv[p].result.status = "error"
                  /\ inv[p].failedAt \in {"fetchTxInfo", "fetchUTxOs"})

\* a getBalance that returned the records of two tokens, both fetches answered
C21_Witness ==
    \E p \in Procs :
        /\ inv[p].op = "getBalance" /\ inv[p].pc = "done"
        /\ Len(inv[p].fan) = 2
        /\ \A i \in 1..2 : inv[p].fan[i].fetch \in {"ok", "failed"}
        /\ inv[p].fan[1].fetch # inv[p].fan[2].fetch
        /\ inv[p].fan[1].fetch = "ok"
        /\ Len(inv[p].result.value.list) = 2


\* the provider answered invocation p of getTransactionHistory with a list
\* of at least one transaction
Listed(p) ==
    /\ inv[p].op = "getTransactionHistory"
    /\ inv[p].rawSeen.seen /\ inv[p].rawSeen.isArray
    /\ Len(inv[p].rawSeen.list) > 0

\* C22: getTransactionHistory on a list of at least one transaction returns
\* one record per transaction of the list, in the order of the list, each made
\* of the info and the UTxOs fetched for the hash of that transaction; when
\* the info or the UTxO fetch of one transaction fails the call fails and
\* returns no list.
C22_OneRecordPerTransaction ==
    \A p \in Procs :
        Listed(p) =>
            LET r == inv[p]
                raw == r.rawSeen.list
            IN  /\ Len(r.fan) = Len(raw)
                /\ \A i \in 1..Len(raw) :
                      /\ r.fan[i].hash = raw[i].hash
                      /\ r.fan[i].state \in {"utxos", "done"} =>
                            r.fan[i].info.hash = raw[i].hash
                      /\ r.fan[i].state = "done" => r.fan[i].utxos.of = raw[i].hash
                /\ r.result.status = "ok" =>
                      LET out == r.result.value.list
                      IN  /\ Len(out) = Len(raw)
                          /\ \A i \in 1..Len(raw) :
                                /\ out[i].hash = raw[i].hash
                                /\ out[i].fees = TxInfoOf(raw[i].hash).fees
                                /\ out[i].utxos = UTxOsOf(raw[i].hash)
                /\ (\E i \in 1..Len(raw) : r.fan[i].state = "failed") =>
                      /\ r.result.status = "error"
                      /\ r.result.value = NoValue
                /\ r.pc = "done" /\ r.result.status = "error" =>
                      \E i \in 1..Len(raw) : r.fan[i].state = "failed"

\* a getTransactionHistory that returned the records of two transactions
C22_Witness ==
    \E p \in Procs :
        /\ Listed(p) /\ inv[p].result.status = "ok"
        /\ Len(inv[p].rawSeen.list) = 2
        /\ inv[p].result.value.list[1].hash = "tx2"
        /\ inv[p].result.value.list[2].utxos.of = "tx3"


\* invocation p is an intent that has built its transaction
Built(p) == inv[p].op \in Intents /\ inv[p].nBuild > 0 /\ inv[p].failedAt # "build"

\* C23: of two intents running on one session at the same time, under every
\* interleaving of their steps, each signs the transaction it built, submits
\* what it signed and returns the hash of what it submitted, never the
\* transaction of the other.
C23_OwnTransactionOnly ==
    \A p \in Procs :
        Built(p) =>
            LET r == inv[p]
            IN  /\ r.unsignedTx = r.tx
                /\ r.nSign > 0 /\ r.failedAt # "sign" => r.signedTx = Signed(r.tx)
                /\ r.nSubmit > 0 => r.signedTx = Signed(r.tx)
                /\ r.result.status = "ok" => r.result.value = TxHashValue(Signed(r.tx))
                /\ \A q \in Procs \ {p} :
                      Built(q) /\ inv[q].tx # r.tx =>
                          /\ r.unsignedTx # inv[q].tx
                          /\ r.nSign > 0 /\ r.failedAt # "sign" =>
                                r.signedTx.body # inv[q].tx
                          /\ r.result.status = "ok" =>
                                r.result.value.stx.body # inv[q].tx

\* a sendLovelace has returned the hash of its own transfer while a sendAsset
\* started beside it is about to submit its own
C23_Witness ==
    \E p, q \in Procs :
        /\ inv[p].op = "sendLovelace" /\ inv[p].result.status = "ok"
        /\ inv[q].op = "sendAsset" /\ inv[q].pc = "submitTx"
        /\ inv[p].result.value.stx.body = inv[p].tx
        /\ inv[q].signedTx.body = inv[q].tx
        /\ inv[p].tx # inv[q].tx


====
